---------------------------- MODULE Spec2Model ----------------------------
(***************************************************************************)
(* Waste-Mitra: a Django application that stores one WasteClassification  *)
(* row per analysis request, sends the uploaded image to an external       *)
(* vision API, extracts a JSON object from the textual reply and writes    *)
(* the extracted fields back to the row.                                   *)
(*                                                                         *)
(* Texts are sequences of tokens.  A token stands for a fixed piece of     *)
(* text:                                                                   *)
(*   "F"    three backticks                "J"   the letters json          *)
(*   "W"    one space                      "X"   a letter, not JSON        *)
(*   "LB"   an opening brace               "RB"  a closing brace           *)
(*   "N"    the digit 5                                                    *)
(*   "O1".."O4"  the text of a complete JSON object (no backticks)         *)
(*   "Opre" an object's text up to and including the opening quote of its  *)
(*          last string value (additional_info.cost_implications)          *)
(*   "Osuf" the closing quote of that string and the two closing braces    *)
(*   "OpreCut" Opre cut after its last closing brace (a regex span can     *)
(*          end there); never part of a reply                              *)
(***************************************************************************)
EXTENDS Integers, Sequences, FiniteSets, TLC

VARIABLES
    rows,       \* the WasteClassification table: row id -> row
    saves,      \* row id -> number of save() calls made on the row
    deleted,    \* the ids of the rows deleted from the table
    apiKey,     \* settings.GEMINI_API_KEY is set
    genaiKey,   \* the key genai.configure has stored for the process
    pc,         \* request -> position of its handler
    path,       \* request -> "api" (WasteAnalysisAPIView) or "form" (WasteAnalysisView)
    input,      \* request -> the submitted image and state
    rowOf,      \* request -> ids of the rows it created (at most one)
    inst,       \* request -> the in-memory model instance of the handler
    result,     \* request -> analysis_result of analyze_waste_image
    calls,      \* request -> number of generate_content invocations
    trace,      \* request -> the steps the handler has taken, in order
    response,   \* request -> the HTTP response returned
    urlconf,    \* state of the import of waste_classifier/urls.py
    info,       \* the body of the answer to GET /api/analyze/
    ptext,      \* input of the parsing functions
    pout,       \* their results
    pdata,      \* the parsed reply given to _validate_response_structure
    pdfRow,     \* the classification handed to generate_pdf_report
    story,      \* the flowables generate_pdf_report has appended
    context     \* the template context of the page rendered last

vars == <<rows, saves, deleted, apiKey, genaiKey, pc, path, input, rowOf, inst, result, calls,
          trace, response, urlconf, info, ptext, pout, pdata, pdfRow, story,
          context>>

reqVars == <<rows, saves, deleted, apiKey, genaiKey, pc, path, input, rowOf, inst, result, calls,
             trace, response>>
parseVars == <<ptext, pout, pdata>>
pdfVars == <<pdfRow, story>>

----------------------------------------------------------------------------
(* Bounds *)

\* handlers running concurrently
MaxRequests == 2
\* replies of every text up to this length are tried, besides the listed ones
MaxReplyLen == 2
\* texts up to this length are handed to the parsing functions
MaxTextLen == 4

----------------------------------------------------------------------------
(* Python values *)

None == {}
Some(v) == {v}
TheValue(o) == CHOOSE v \in o : TRUE

Str(tok) == <<tok>>
EmptyStr == <<>>

Has(d, k) == \E p \in d : p[1] = k
Get(d, k, default) == IF Has(d, k) THEN (CHOOSE p \in d : p[1] = k)[2] ELSE default

StrLeaf(txt) == [t |-> "str", n |-> 0, txt |-> txt]
NumLeaf(n) == [t |-> "num", n |-> n, txt |-> EmptyStr]
DictSec(items) == [t |-> "dict", items |-> items]
StrSec == [t |-> "str", items |-> {}]
Dict(items) == [t |-> "dict", items |-> items]
NumValue == [t |-> "num", items |-> {}]
NoValue == [t |-> "none", items |-> {}]

----------------------------------------------------------------------------
(* str.strip, str.startswith, str.endswith, str.find, str.rfind *)

IsSpace(tok) == tok = "W"

RECURSIVE LStrip(_)
LStrip(s) == IF s # <<>> /\ IsSpace(Head(s)) THEN LStrip(Tail(s)) ELSE s

RECURSIVE RStrip(_)
RStrip(s) ==
    IF s # <<>> /\ IsSpace(s[Len(s)]) THEN RStrip(SubSeq(s, 1, Len(s) - 1)) ELSE s

Strip(s) == RStrip(LStrip(s))

StartsWith(s, p) == Len(s) >= Len(p) /\ SubSeq(s, 1, Len(p)) = p
EndsWith(s, p) == Len(s) >= Len(p) /\ SubSeq(s, Len(s) - Len(p) + 1, Len(s)) = p

Fence == <<"F">>
FenceJson == <<"F", "J">>

\* the positions at which p occurs in s
Occurrences(s, p) ==
    {i \in 1..(Len(s) - Len(p) + 1) : SubSeq(s, i, i + Len(p) - 1) = p}

Min(S) == CHOOSE x \in S : \A y \in S : x <= y
Max(S) == CHOOSE x \in S : \A y \in S : x >= y

\* str.find and str.rfind: 0 when there is no occurrence (Python's -1)
Find(s, p) == IF Occurrences(s, p) = {} THEN 0 ELSE Min(Occurrences(s, p))
RFind(s, p) == IF Occurrences(s, p) = {} THEN 0 ELSE Max(Occurrences(s, p))


----------------------------------------------------------------------------
(* The JSON objects the object tokens stand for *)

\* the list without ORGANIC
CategoryCodes_short ==
    {Str("MEDICAL"), Str("E_WASTE"), Str("GENERAL"), Str("RECYCLABLE"),
     Str("NON_RECYCLABLE"), Str("HAZARDOUS")}

\* valid_categories of _validate_response_structure (214)
CategoryCodes ==
    {Str("MEDICAL"), Str("E_WASTE"), Str("GENERAL"), Str("RECYCLABLE"),
     Str("NON_RECYCLABLE"), Str("HAZARDOUS"), Str("ORGANIC")}

WasteClass(cat, conf) ==
    DictSec({<<"category", StrLeaf(Str(cat))>>, <<"confidence", conf>>,
             <<"description", StrLeaf(Str("d1"))>>})

FullDisposal ==
    DictSec({<<"general_method", StrLeaf(Str("gm"))>>,
             <<"state_specific_laws", StrLeaf(Str("sl"))>>,
             <<"authorized_facilities", StrLeaf(Str("af"))>>})
FullRisk ==
    DictSec({<<"health_hazards", StrLeaf(Str("hh"))>>,
             <<"environmental_risks", StrLeaf(Str("er"))>>})
FullSafety ==
    DictSec({<<"precautions", StrLeaf(Str("pr"))>>,
             <<"protective_equipment", StrLeaf(Str("pe"))>>,
             <<"emergency_procedures", StrLeaf(Str("ep"))>>})
Additional(cost) ==
    DictSec({<<"recyclability", StrLeaf(Str("ry"))>>,
             <<"cost_implications", StrLeaf(cost)>>})

Sections(wc, disposal, risk, safety, additional) ==
    Dict({<<"waste_classification", wc>>, <<"disposal_instructions", disposal>>,
          <<"risk_assessment", risk>>, <<"safety_measures", safety>>,
          <<"additional_info", additional>>})

\* O1: every key present
ObjFull ==
    Sections(WasteClass("MEDICAL", NumLeaf(90)), FullDisposal, FullRisk, FullSafety,
             Additional(Str("ci")))
\* O2: the optional sub-keys partly absent
ObjSparse ==
    Sections(WasteClass("ORGANIC", NumLeaf(100)),
             DictSec({<<"general_method", StrLeaf(Str("gm2"))>>}), DictSec({}),
             DictSec({<<"precautions", StrLeaf(Str("pr2"))>>}), DictSec({}))
\* O3: a category that is not one of the codes
ObjBadCategory ==
    Sections(WasteClass("PLASTIC", NumLeaf(90)), FullDisposal, FullRisk, FullSafety,
             Additional(Str("ci")))
\* O4: disposal_instructions is a string, not an object
ObjStrSection ==
    Sections(WasteClass("HAZARDOUS", NumLeaf(0)), StrSec, FullRisk, FullSafety,
             Additional(Str("ci")))
\* Opre mid Osuf: O1 with the text mid as its cost_implications
ObjEmbedded(mid) ==
    Sections(WasteClass("MEDICAL", NumLeaf(90)), FullDisposal, FullRisk, FullSafety,
             Additional(mid))

ObjTokens == {"O1", "O2", "O3", "O4"}
ObjValue(tok) ==
    CASE tok = "O1" -> ObjFull
      [] tok = "O2" -> ObjSparse
      [] tok = "O3" -> ObjBadCategory
      [] tok = "O4" -> ObjStrSection

\* the tokens whose text holds no double quote
QuoteFree == {"F", "J", "W", "X", "LB", "RB", "N"}

----------------------------------------------------------------------------
(* json.loads on a text: ok = FALSE stands for json.JSONDecodeError *)

Range(s) == {s[i] : i \in 1..Len(s)}
Inner(s) == SubSeq(s, 2, Len(s) - 1)

Loads(text) ==
    LET s == Strip(text)
        n == Len(s)
    IN  IF n = 1 /\ s[1] \in ObjTokens
            THEN [ok |-> TRUE, value |-> ObjValue(s[1])]
        ELSE IF n >= 1 /\ Range(s) = {"N"}
            THEN [ok |-> TRUE, value |-> NumValue]
        ELSE IF n >= 2 /\ s[1] = "LB" /\ s[n] = "RB" /\ Range(Inner(s)) \subseteq {"W"}
            THEN [ok |-> TRUE, value |-> Dict({})]
        ELSE IF n >= 2 /\ s[1] = "Opre" /\ s[n] = "Osuf"
                /\ Range(Inner(s)) \subseteq QuoteFree
            THEN [ok |-> TRUE, value |-> ObjEmbedded(Inner(s))]
        ELSE [ok |-> FALSE, value |-> NoValue]

----------------------------------------------------------------------------
(* GeminiWasteAnalyzer._parse_gemini_json_response *)

StripLeadingFence(cleaned) ==
    IF StartsWith(cleaned, FenceJson) THEN SubSeq(cleaned, 3, Len(cleaned))
    ELSE IF StartsWith(cleaned, Fence) THEN SubSeq(cleaned, 2, Len(cleaned))
    ELSE cleaned

StripTrailingFence(cleaned) ==
    IF EndsWith(cleaned, Fence) THEN SubSeq(cleaned, 1, Len(cleaned) - 1) ELSE cleaned

\* the trailing fence removed only when a leading fence was
parse_gemini_json_response_paired(raw_response) ==
    LET cleaned == Strip(raw_response)
    IN  IF StartsWith(cleaned, Fence)
            THEN Loads(Strip(StripTrailingFence(StripLeadingFence(cleaned))))
            ELSE Loads(cleaned)

parse_gemini_json_response(raw_response) ==
    Loads(Strip(StripTrailingFence(StripLeadingFence(Strip(raw_response)))))

----------------------------------------------------------------------------
(* views.parse_gemini_response: four strategies, tried in order.  Each     *)
(* strategy has a condition under which it is attempted and a candidate    *)
(* text handed to json.loads.                                              *)

\* strategy 1: the trimmed reply itself
DirectCandidate(cleaned) == cleaned

\* strategy 2: '```json' in cleaned, start_idx = find + 7, end_idx = rfind('```')
BlockStart(cleaned) == Find(cleaned, FenceJson) + 2
BlockEnd(cleaned) == RFind(cleaned, Fence)
BlockApplies(cleaned) ==
    /\ Occurrences(cleaned, FenceJson) # {}
    /\ BlockStart(cleaned) < BlockEnd(cleaned)
BlockCandidate(cleaned) ==
    Strip(SubSeq(cleaned, BlockStart(cleaned), BlockEnd(cleaned) - 1))

\* strategy 3: re.search(r'```json\s*(.*?)\s*```', cleaned, re.DOTALL): the
\* leftmost '```json' and, the group being lazy, the nearest fence after it
FencesAfter(cleaned, i) == {j \in Occurrences(cleaned, Fence) : j >= i}
RegexFenceApplies(cleaned) ==
    /\ Occurrences(cleaned, FenceJson) # {}
    /\ FencesAfter(cleaned, Find(cleaned, FenceJson) + 2) # {}
\* a greedy group: the last fence instead of the nearest
RegexFenceCandidate_greedy(cleaned) ==
    LET from == Find(cleaned, FenceJson) + 2
    IN  Strip(SubSeq(cleaned, from, Max(FencesAfter(cleaned, from)) - 1))
RegexFenceCandidate(cleaned) ==
    LET from == Find(cleaned, FenceJson) + 2
    IN  Strip(SubSeq(cleaned, from, Min(FencesAfter(cleaned, from)) - 1))

\* strategy 4: re.search(r'(\{.*\})', cleaned, re.DOTALL): greedy, from the first
\* opening brace to the last closing brace.  Every token that holds an opening
\* brace starts with one; Opre holds closing braces but does not end with one.
HasOpenBrace(tok) == tok \in ObjTokens \cup {"LB", "Opre"}
HasCloseBrace(tok) == tok \in ObjTokens \cup {"RB", "Osuf", "Opre"}
OpenAt(cleaned) == {i \in 1..Len(cleaned) : HasOpenBrace(cleaned[i])}
CloseAt(cleaned) == {i \in 1..Len(cleaned) : HasCloseBrace(cleaned[i])}
BraceApplies(cleaned) ==
    /\ OpenAt(cleaned) # {}
    /\ CloseAt(cleaned) # {}
    /\ \/ Min(OpenAt(cleaned)) < Max(CloseAt(cleaned))
       \/ /\ Min(OpenAt(cleaned)) = Max(CloseAt(cleaned))
          /\ cleaned[Min(OpenAt(cleaned))] \in ObjTokens \cup {"Opre"}
BraceCandidate(cleaned) ==
    LET i == Min(OpenAt(cleaned))
        j == Max(CloseAt(cleaned))
    IN  IF cleaned[j] = "Opre"
            THEN SubSeq(cleaned, i, j - 1) \o <<"OpreCut">>
            ELSE SubSeq(cleaned, i, j)

Raised(tried) == [ok |-> FALSE, value |-> NoValue, tried |-> tried]
Returned(loaded, tried) == [ok |-> TRUE, value |-> loaded.value, tried |-> tried]

\* lines 65-77: the brace span, then ValueError
BraceStep(cleaned, tried) ==
    IF BraceApplies(cleaned)
        THEN IF Loads(BraceCandidate(cleaned)).ok
                THEN Returned(Loads(BraceCandidate(cleaned)), Append(tried, 4))
                ELSE Raised(Append(tried, 4))
        ELSE Raised(tried)

\* lines 55-63: the regex-matched fenced block
RegexFenceStep(cleaned, tried) ==
    IF RegexFenceApplies(cleaned)
        THEN IF Loads(RegexFenceCandidate(cleaned)).ok
                THEN Returned(Loads(RegexFenceCandidate(cleaned)), Append(tried, 3))
                ELSE BraceStep(cleaned, Append(tried, 3))
        ELSE BraceStep(cleaned, tried)

\* lines 36-53: the text between the first '```json' and the last fence
BlockStep(cleaned, tried) ==
    IF BlockApplies(cleaned)
        THEN IF Loads(BlockCandidate(cleaned)).ok
                THEN Returned(Loads(BlockCandidate(cleaned)), Append(tried, 2))
                ELSE RegexFenceStep(cleaned, Append(tried, 2))
        ELSE RegexFenceStep(cleaned, tried)

\* ok = FALSE stands for the ValueError of line 77; tried lists the strategies
\* whose candidate was handed to json.loads
parse_gemini_response(raw_response) ==
    LET cleaned == Strip(raw_response)
    IN  IF Loads(DirectCandidate(cleaned)).ok
            THEN Returned(Loads(DirectCandidate(cleaned)), <<1>>)
            ELSE BlockStep(cleaned, <<1>>)

----------------------------------------------------------------------------
(* models.WasteClassification *)

INDIAN_STATES ==
    {"AP", "AR", "AS", "BR", "CT", "GA", "GJ", "HR", "HP", "JH", "KA", "KL", "MP",
     "MH", "MN", "ML", "MZ", "NL", "OR", "PB", "RJ", "SK", "TN", "TG", "TR", "UP",
     "UT", "WB", "AN", "CH", "DH", "DD", "DL", "JK", "LA", "LD", "PY"}

\* models.WASTE_CATEGORIES: code and display name
WASTE_CATEGORIES ==
    { <<Str("MEDICAL"), Str("Medical Waste")>>, <<Str("E_WASTE"), Str("E-Waste")>>,
      <<Str("GENERAL"), Str("General Waste")>>,
      <<Str("RECYCLABLE"), Str("Recyclable Waste")>>,
      <<Str("NON_RECYCLABLE"), Str("Non-Recyclable Waste")>>,
      <<Str("HAZARDOUS"), Str("Hazardous Waste")>>,
      <<Str("ORGANIC"), Str("Organic Waste")>> }

\* the choices of the state field (models.py 19-32): code and display name
StateChoices ==
    { <<"AP", "Andhra Pradesh">>, <<"AR", "Arunachal Pradesh">>,
      <<"AS", "Assam">>, <<"BR", "Bihar">>, <<"CT", "Chhattisgarh">>,
      <<"GA", "Goa">>, <<"GJ", "Gujarat">>, <<"HR", "Haryana">>,
      <<"HP", "Himachal Pradesh">>, <<"JH", "Jharkhand">>,
      <<"KA", "Karnataka">>, <<"KL", "Kerala">>, <<"MP", "Madhya Pradesh">>,
      <<"MH", "Maharashtra">>, <<"MN", "Manipur">>, <<"ML", "Meghalaya">>,
      <<"MZ", "Mizoram">>, <<"NL", "Nagaland">>, <<"OR", "Odisha">>,
      <<"PB", "Punjab">>, <<"RJ", "Rajasthan">>, <<"SK", "Sikkim">>,
      <<"TN", "Tamil Nadu">>, <<"TG", "Telangana">>, <<"TR", "Tripura">>,
      <<"UP", "Uttar Pradesh">>, <<"UT", "Uttarakhand">>,
      <<"WB", "West Bengal">>, <<"AN", "Andaman and Nicobar">>,
      <<"CH", "Chandigarh">>, <<"DH", "Dadra and Nagar Haveli">>,
      <<"DD", "Daman and Diu">>, <<"DL", "Delhi">>,
      <<"JK", "Jammu and Kashmir">>, <<"LA", "Ladakh">>,
      <<"LD", "Lakshadweep">>, <<"PY", "Puducherry">> }
\* Model.get_state_display(): the display name of the choice, and the value
\* itself when it is none of the choices
get_state_display(state) ==
    IF \E choice \in StateChoices : choice[1] = state
        THEN (CHOOSE choice \in StateChoices : choice[1] = state)[2]
        ELSE state

\* the result fields of a row, in the order of the model's declaration
TextFields ==
    <<"waste_description", "disposal_instructions", "state_specific_laws",
      "authorized_facilities", "health_hazards", "environmental_risks",
      "precautions", "protective_equipment", "emergency_procedures",
      "recyclability_info", "cost_implications">>

\* a row that starts with the category of the fallback
NewRow_categorised(image, state) ==
    [image |-> image, state |-> state,
     predicted_category |-> Str("GENERAL"), confidence_score |-> None,
     waste_description |-> EmptyStr,
     disposal_instructions |-> EmptyStr, state_specific_laws |-> EmptyStr,
     authorized_facilities |-> EmptyStr,
     health_hazards |-> EmptyStr, environmental_risks |-> EmptyStr,
     precautions |-> EmptyStr, protective_equipment |-> EmptyStr,
     emergency_procedures |-> EmptyStr,
     recyclability_info |-> EmptyStr, cost_implications |-> EmptyStr,
     gemini_raw_response |-> None]

\* WasteClassification.objects.create(image=..., state=...): every other field
\* takes its default (blank text, null confidence and raw response)
NewRow(image, state) ==
    [image |-> image, state |-> state,
     predicted_category |-> EmptyStr, confidence_score |-> None,
     waste_description |-> EmptyStr,
     disposal_instructions |-> EmptyStr, state_specific_laws |-> EmptyStr,
     authorized_facilities |-> EmptyStr,
     health_hazards |-> EmptyStr, environmental_risks |-> EmptyStr,
     precautions |-> EmptyStr, protective_equipment |-> EmptyStr,
     emergency_procedures |-> EmptyStr,
     recyclability_info |-> EmptyStr, cost_implications |-> EmptyStr,
     gemini_raw_response |-> None]

----------------------------------------------------------------------------
(* serializers.WasteAnalysisInputSerializer *)

MaxUploadBytes == 10485760

NoImage == [present |-> FALSE, size |-> 0, content_type |-> <<>>, decodable |-> FALSE]
Upload(size, content_type, decodable) ==
    [present |-> TRUE, size |-> size, content_type |-> content_type,
     decodable |-> decodable]
NoState == ""

\* serializers.ImageField(required=True): a file, not empty, that Pillow reads
ImageFieldAccepts(image) == image.present /\ image.size > 0 /\ image.decodable

\* the limit itself rejected
SizeRejected_inclusive(image) == image.size >= MaxUploadBytes

\* validate_image raises ValidationError
SizeRejected(image) == image.size > MaxUploadBytes
TypeRejected(image) == ~StartsWith(image.content_type, <<"image/">>)
validate_image(image) == ~SizeRejected(image) /\ ~TypeRejected(image)

\* serializers.ChoiceField(choices=INDIAN_STATES, required=True)
StateFieldAccepts(state) == state \in INDIAN_STATES

\* serializer.errors: the fields that failed
SerializerErrors(image, state) ==
    (IF ImageFieldAccepts(image) /\ validate_image(image) THEN {} ELSE {"image"})
        \cup (IF StateFieldAccepts(state) THEN {} ELSE {"state"})

is_valid(image, state) == SerializerErrors(image, state) = {}

----------------------------------------------------------------------------
(* GeminiWasteAnalyzer.get_state_name_from_code *)

\* the table of the states before one of them was added
AnalyzerStates_short ==
    { <<"AP", "Andhra Pradesh">>, <<"AR", "Arunachal Pradesh">>,
      <<"AS", "Assam">>, <<"BR", "Bihar">>, <<"CT", "Chhattisgarh">>,
      <<"GA", "Goa">>, <<"GJ", "Gujarat">>, <<"HR", "Haryana">>,
      <<"HP", "Himachal Pradesh">>, <<"JH", "Jharkhand">>,
      <<"KA", "Karnataka">>, <<"KL", "Kerala">>, <<"MP", "Madhya Pradesh">>,
      <<"MH", "Maharashtra">>, <<"MN", "Manipur">>, <<"ML", "Meghalaya">>,
      <<"MZ", "Mizoram">>, <<"NL", "Nagaland">>, <<"OR", "Odisha">>,
      <<"PB", "Punjab">>, <<"RJ", "Rajasthan">>, <<"SK", "Sikkim">>,
      <<"TN", "Tamil Nadu">>, <<"TG", "Telangana">>, <<"TR", "Tripura">>,
      <<"UP", "Uttar Pradesh">>, <<"UT", "Uttarakhand">>,
      <<"WB", "West Bengal">>, <<"AN", "Andaman and Nicobar">>,
      <<"CH", "Chandigarh">>, <<"DH", "Dadra and Nagar Haveli">>,
      <<"DD", "Daman and Diu">>, <<"DL", "Delhi">>,
      <<"JK", "Jammu and Kashmir">>, <<"LD", "Lakshadweep">>,
      <<"PY", "Puducherry">> }

\* self.INDIAN_STATES (gemini_service.py 21-34): state code to name
AnalyzerStates ==
    { <<"AP", "Andhra Pradesh">>, <<"AR", "Arunachal Pradesh">>,
      <<"AS", "Assam">>, <<"BR", "Bihar">>, <<"CT", "Chhattisgarh">>,
      <<"GA", "Goa">>, <<"GJ", "Gujarat">>, <<"HR", "Haryana">>,
      <<"HP", "Himachal Pradesh">>, <<"JH", "Jharkhand">>,
      <<"KA", "Karnataka">>, <<"KL", "Kerala">>, <<"MP", "Madhya Pradesh">>,
      <<"MH", "Maharashtra">>, <<"MN", "Manipur">>, <<"ML", "Meghalaya">>,
      <<"MZ", "Mizoram">>, <<"NL", "Nagaland">>, <<"OR", "Odisha">>,
      <<"PB", "Punjab">>, <<"RJ", "Rajasthan">>, <<"SK", "Sikkim">>,
      <<"TN", "Tamil Nadu">>, <<"TG", "Telangana">>, <<"TR", "Tripura">>,
      <<"UP", "Uttar Pradesh">>, <<"UT", "Uttarakhand">>,
      <<"WB", "West Bengal">>, <<"AN", "Andaman and Nicobar">>,
      <<"CH", "Chandigarh">>, <<"DH", "Dadra and Nagar Haveli">>,
      <<"DD", "Daman and Diu">>, <<"DL", "Delhi">>,
      <<"JK", "Jammu and Kashmir">>, <<"LA", "Ladakh">>,
      <<"LD", "Lakshadweep">>, <<"PY", "Puducherry">> }

\* self.INDIAN_STATES.get(state_code, state_code)
get_state_name_from_code(state_code) ==
    IF \E entry \in AnalyzerStates : entry[1] = state_code
        THEN (CHOOSE entry \in AnalyzerStates : entry[1] = state_code)[2]
        ELSE state_code

----------------------------------------------------------------------------
(* GeminiWasteAnalyzer._validate_response_structure *)

RequiredKeys ==
    {"waste_classification", "disposal_instructions", "risk_assessment",
     "safety_measures", "additional_info"}
NoLeaf == [t |-> "none", n |-> 0, txt |-> EmptyStr]

\* a validation that accepts every object
validate_response_structure_any(data) == TRUE

validate_response_structure(data) ==
    LET waste_class == Get(data.items, "waste_classification", DictSec({}))
        category == Get(waste_class.items, "category", NoLeaf)
        confidence == Get(waste_class.items, "confidence", NoLeaf)
    IN  /\ \A key \in RequiredKeys : Has(data.items, key)
        /\ \A k \in {"category", "confidence", "description"} : Has(waste_class.items, k)
        /\ category.t = "str" /\ category.txt \in CategoryCodes
        /\ confidence.t = "num" /\ 0 <= confidence.n /\ confidence.n <= 100

----------------------------------------------------------------------------
(* GeminiWasteAnalyzer.analyze_waste_image, from the reply of generate_content  *)
(* on.  A reply is [raised, text]: generate_content or response.text raised, or *)
(* the text of the response (empty when there is none).                         *)

Raise == [raised |-> TRUE, text |-> <<>>]
Reply(text) == [raised |-> FALSE, text |-> text]

\* a failure that names no error
Failure_silent(error, raw) ==
    [success |-> FALSE, error |-> "", raw_response |-> raw, data |-> NoValue]

Failure(error, raw) ==
    [success |-> FALSE, error |-> error, raw_response |-> raw, data |-> NoValue]

\* lines 104-143
AfterReply(reply) ==
    IF reply.raised THEN Failure("Gemini API error", None)
    ELSE IF reply.text = <<>> THEN Failure("No response received from Gemini API", None)
    ELSE LET parsed == parse_gemini_json_response(reply.text)
         IN  IF ~parsed.ok
                 THEN Failure("Failed to parse API response as JSON", Some(reply.text))
             ELSE IF parsed.value.t # "dict"
                 \* 'key not in data' raises TypeError on a number
                 THEN Failure("Gemini API error", None)
             ELSE IF ~validate_response_structure(parsed.value)
                 THEN Failure("Invalid response structure from Gemini API",
                              Some(reply.text))
             ELSE [success |-> TRUE, error |-> "", raw_response |-> Some(reply.text),
                   data |-> parsed.value]

\* analyze_waste_image (75-143): exists is os.path.exists(image_path), decodable
\* whether Image.open reads the file, reply what generate_content does
analyze_waste_image(exists, decodable, reply) ==
    IF ~exists THEN Failure("Image file not found", None)
    ELSE IF ~decodable THEN Failure("Gemini API error", None)
    ELSE AfterReply(reply)
\* generate_content is reached
Generates(exists, decodable) == exists /\ decodable

----------------------------------------------------------------------------
(* views: the field extraction of lines 203-227 (API) and 313-332 (form) *)

SectionOf(data, name) == Get(data.items, name, DictSec({}))
TextOf(section, key) == Get(section.items, key, StrLeaf(EmptyStr)).txt

\* data.get / section.get raise AttributeError on a value that is no dict, and
\* float() raises on text that is no number
ExtractionRaises(data) ==
    \/ data.t # "dict"
    \/ \E name \in RequiredKeys : SectionOf(data, name).t # "dict"
    \/ Get(SectionOf(data, "waste_classification").items, "confidence", NumLeaf(50)).t
          # "num"

\* an extraction that sets the classification and leaves the raw reply unset
Extracted_classified(row, data, raw_response) ==
    LET waste_class == SectionOf(data, "waste_classification")
    IN  [row EXCEPT
            !.predicted_category =
                Get(waste_class.items, "category", StrLeaf(Str("GENERAL"))).txt,
            !.confidence_score =
                Some(Get(waste_class.items, "confidence", NumLeaf(50)).n)]

Extracted(row, data, raw_response) ==
    LET waste_class == SectionOf(data, "waste_classification")
        disposal == SectionOf(data, "disposal_instructions")
        risks == SectionOf(data, "risk_assessment")
        safety == SectionOf(data, "safety_measures")
        additional == SectionOf(data, "additional_info")
    IN  [image |-> row.image, state |-> row.state,
         predicted_category |->
             Get(waste_class.items, "category", StrLeaf(Str("GENERAL"))).txt,
         confidence_score |->
             Some(Get(waste_class.items, "confidence", NumLeaf(50)).n),
         waste_description |-> TextOf(waste_class, "description"),
         disposal_instructions |-> TextOf(disposal, "general_method"),
         state_specific_laws |-> TextOf(disposal, "state_specific_laws"),
         authorized_facilities |-> TextOf(disposal, "authorized_facilities"),
         health_hazards |-> TextOf(risks, "health_hazards"),
         environmental_risks |-> TextOf(risks, "environmental_risks"),
         precautions |-> TextOf(safety, "precautions"),
         protective_equipment |-> TextOf(safety, "protective_equipment"),
         emergency_procedures |-> TextOf(safety, "emergency_procedures"),
         recyclability_info |-> TextOf(additional, "recyclability"),
         cost_implications |-> TextOf(additional, "cost_implications"),
         gemini_raw_response |-> Some(raw_response)]

----------------------------------------------------------------------------
(* HTTP responses *)

Requests == 1..MaxRequests

NoResponse ==
    [status |-> 0, success |-> FALSE, errors |-> {}, error |-> "", data |-> None,
     redirect |-> "", pk |-> None, flash |-> ""]

\* views.py 149-152
BadRequest(errors) ==
    [NoResponse EXCEPT !.status = 400, !.errors = errors]
\* views.py 177-180, 192-200, 260-263
ServerError(error) ==
    [NoResponse EXCEPT !.status = 500, !.error = error]
\* views.py 231-256
ResponseData(id, row) ==
    [id |-> id, waste_category |-> row.predicted_category,
     confidence_score |-> TheValue(row.confidence_score), state |-> row.state,
     state_display |-> get_state_name_from_code(row.state),
     waste_description |-> row.waste_description,
     disposal_instructions |-> row.disposal_instructions,
     state_specific_laws |-> row.state_specific_laws,
     authorized_facilities |-> row.authorized_facilities,
     health_hazards |-> row.health_hazards,
     environmental_risks |-> row.environmental_risks,
     precautions |-> row.precautions,
     protective_equipment |-> row.protective_equipment,
     emergency_procedures |-> row.emergency_procedures,
     recyclability_info |-> row.recyclability_info,
     cost_implications |-> row.cost_implications]
Ok(id, row) ==
    [NoResponse EXCEPT !.status = 200, !.success = TRUE,
                       !.data = Some(ResponseData(id, row))]
\* views.py 280-281, 309-310, 337-338, 342-343: messages.error, redirect('analyze')
FlashError(flash, error) ==
    [NoResponse EXCEPT !.status = 302, !.redirect = "analyze", !.flash = flash,
                       !.error = error]
\* views.py 335: redirect('results', pk=...)
ToResults(id) ==
    [NoResponse EXCEPT !.status = 302, !.success = TRUE, !.redirect = "results",
                       !.pk = Some(id)]

\* what each view answers when analyze_waste_image reports a failure, when
\* parse_gemini_response raises, and when its except clause catches an exception
AnalysisFailed(p, error) ==
    IF p = "api" THEN ServerError(error) ELSE FlashError("Analysis failed", error)
ParseFailed(p) ==
    IF p = "api" THEN ServerError("Failed to parse API response as JSON")
    ELSE FlashError("Failed to parse analysis response. Please try again.", "")
\* an except clause for ValueError alone: anything else leaves the handler, and
\* the framework answers 500 without a body
Caught_narrow(p, exception) ==
    IF exception = "GEMINI_API_KEY not found in settings"
        THEN IF p = "api" THEN ServerError(exception)
             ELSE FlashError("Analysis failed", exception)
        ELSE [NoResponse EXCEPT !.status = 500]

Caught(p, exception) ==
    IF p = "api" THEN ServerError(exception) ELSE FlashError("Analysis failed", exception)
Succeeded(p, id, row) == IF p = "api" THEN Ok(id, row) ELSE ToResults(id)

----------------------------------------------------------------------------
(* The handlers WasteAnalysisAPIView.post and WasteAnalysisView.post, step *)
(* by step.  A handler is at "idle", "validated", "created", "calling",    *)
(* "extracted" or "done".                                                  *)

InitRequests ==
    /\ rows = <<>>
    /\ saves = <<>>
    /\ deleted = {}
    /\ genaiKey = None
    /\ pc = [r \in Requests |-> "idle"]
    /\ path = [r \in Requests |-> ""]
    /\ input = [r \in Requests |-> [image |-> NoImage, state |-> NoState]]
    /\ rowOf = [r \in Requests |-> {}]
    /\ inst = [r \in Requests |-> None]
    /\ result = [r \in Requests |-> None]
    /\ calls = [r \in Requests |-> 0]
    /\ trace = [r \in Requests |-> <<>>]
    /\ response = [r \in Requests |-> NoResponse]
    /\ urlconf = "not imported"
    /\ info = None
    /\ context = None

NoParse == /\ ptext = <<>>
           /\ pout = None
           /\ pdata = NoValue
NoPdf == /\ pdfRow = None
         /\ story = <<>>

Init ==
    /\ InitRequests
    /\ apiKey \in BOOLEAN
    /\ NoParse
    /\ NoPdf

\* a handler that starts over when the analysis has failed
Finish_retry(r, done, resp) ==
    /\ pc' = [pc EXCEPT ![r] =
                 IF resp.error = "Gemini API error" THEN "created" ELSE "done"]
    /\ trace' = [trace EXCEPT ![r] = @ \o done \o <<"respond">>]
    /\ response' = [response EXCEPT ![r] = resp]

\* the handler of r returns resp, having taken the steps done
Finish(r, done, resp) ==
    /\ pc' = [pc EXCEPT ![r] = "done"]
    /\ trace' = [trace EXCEPT ![r] = @ \o done \o <<"respond">>]
    /\ response' = [response EXCEPT ![r] = resp]

\* a handler that goes on whatever the validation says
Accepts_unchecked(p, image, state) == image.present

\* a form handler that validates with the serializer, as the API handler does
Accepts_serialized(p, image, state) == is_valid(image, state)

\* API: serializer.is_valid() (146-152).  Form: 'not image or not state' (276-281)
Accepts(p, image, state) ==
    IF p = "api" THEN is_valid(image, state)
    ELSE image.present /\ state # NoState
Rejection(p, image, state) ==
    IF p = "api" THEN BadRequest(SerializerErrors(image, state))
    ELSE FlashError("Please provide both image and state.", "")

Receive(r, p, image, state) ==
    /\ pc[r] = "idle"
    /\ path' = [path EXCEPT ![r] = p]
    /\ input' = [input EXCEPT ![r] = [image |-> image, state |-> state]]
    /\ IF Accepts(p, image, state)
          THEN /\ pc' = [pc EXCEPT ![r] = "validated"]
               /\ trace' = [trace EXCEPT ![r] = @ \o <<"validate">>]
               /\ UNCHANGED response
          ELSE Finish(r, <<"validate">>, Rejection(p, image, state))
    /\ UNCHANGED <<rows, saves, deleted, apiKey, rowOf, inst, result, calls>>
    /\ UNCHANGED <<genaiKey, urlconf, info, parseVars, pdfVars, context>>

\* WasteClassification.objects.create (160-163, 285-288); the database may raise
Create(r) ==
    /\ pc[r] = "validated"
    /\ \E stored \in BOOLEAN :
          IF stored
             THEN /\ rows' = Append(rows, NewRow(input[r].image, input[r].state))
                  /\ saves' = Append(saves, 0)
                  /\ rowOf' = [rowOf EXCEPT ![r] = {Len(rows) + 1}]
                  /\ inst' = [inst EXCEPT ![r] =
                                 Some(NewRow(input[r].image, input[r].state))]
                  /\ pc' = [pc EXCEPT ![r] = "created"]
                  /\ trace' = [trace EXCEPT ![r] = @ \o <<"create">>]
                  /\ UNCHANGED response
             ELSE /\ Finish(r, <<"raise">>, Caught(path[r], "DatabaseError"))
                  /\ UNCHANGED <<rows, saves, rowOf, inst>>
    /\ UNCHANGED <<deleted, apiKey, path, input, result, calls>>
    /\ UNCHANGED <<genaiKey, urlconf, info, parseVars, pdfVars, context>>

\* GeminiWasteAnalyzer() (166, 291; gemini_service 12-18) and analyze_waste_image
\* up to its call of generate_content (gemini_service 87-102)
Invoke(r) ==
    /\ pc[r] = "created"
    /\ \E exists \in BOOLEAN :
          IF ~apiKey
             THEN /\ Finish(r, <<"raise">>,
                              Caught(path[r], "GEMINI_API_KEY not found in settings"))
                  /\ UNCHANGED <<result, calls>>
          ELSE IF ~exists
             THEN /\ result' = [result EXCEPT ![r] = Some(Failure("Image file not found", None))]
                  /\ Finish(r, <<>>, AnalysisFailed(path[r], "Image file not found"))
                  /\ UNCHANGED calls
          ELSE IF ~input[r].image.decodable
             \* Image.open raises; the except clause of line 138 catches it
             THEN /\ result' = [result EXCEPT ![r] = Some(Failure("Gemini API error", None))]
                  /\ Finish(r, <<"raise">>, AnalysisFailed(path[r], "Gemini API error"))
                  /\ UNCHANGED calls
          ELSE /\ calls' = [calls EXCEPT ![r] = @ + 1]
               /\ pc' = [pc EXCEPT ![r] = "calling"]
               /\ trace' = [trace EXCEPT ![r] = @ \o <<"call">>]
               /\ UNCHANGED <<result, response>>
    /\ UNCHANGED <<rows, saves, deleted, apiKey, path, input, rowOf, inst>>
    \* __init__ (14-18): genai.configure(api_key=settings.GEMINI_API_KEY)
    /\ genaiKey' = IF apiKey THEN Some("GEMINI_API_KEY") ELSE genaiKey
    /\ UNCHANGED <<urlconf, info, parseVars, pdfVars, context>>

\* generate_content returns or raises; the rest of analyze_waste_image
\* (gemini_service 104-143); then the view: the failure answer (176-180, 336-338),
\* parse_gemini_response (185-200, 304-310) and the field extraction (203-227,
\* 313-332) into the in-memory instance
Return(r, reply) ==
    /\ pc[r] = "calling"
    /\ LET analysis_result == AfterReply(reply)
           parsed == parse_gemini_response(TheValue(analysis_result.raw_response))
           \* the call raised, or it returned and a later line of the service raised
           returned ==
               IF reply.raised THEN <<"raise">>
               ELSE IF analysis_result.error = "Gemini API error"
                   THEN <<"return", "raise">>
               ELSE <<"return">>
       IN  /\ result' = [result EXCEPT ![r] = Some(analysis_result)]
           /\ IF ~analysis_result.success
                 THEN /\ Finish(r, returned,
                                AnalysisFailed(path[r], analysis_result.error))
                      /\ UNCHANGED inst
              ELSE IF ~parsed.ok
                 THEN /\ Finish(r, <<"return", "parse">>, ParseFailed(path[r]))
                      /\ UNCHANGED inst
              ELSE IF ExtractionRaises(parsed.value)
                 THEN /\ Finish(r, <<"return", "parse", "raise">>,
                                Caught(path[r], "AttributeError"))
                      /\ UNCHANGED inst
              ELSE /\ inst' = [inst EXCEPT ![r] =
                                  Some(Extracted(TheValue(@), parsed.value,
                                                 TheValue(analysis_result.raw_response)))]
                   /\ pc' = [pc EXCEPT ![r] = "extracted"]
                   /\ trace' = [trace EXCEPT ![r] = @ \o <<"return", "parse">>]
                   /\ UNCHANGED response
    /\ UNCHANGED <<rows, saves, deleted, apiKey, path, input, rowOf, calls>>
    /\ UNCHANGED <<genaiKey, urlconf, info, parseVars, pdfVars, context>>

\* save() on the most recent row of the table
RowToSave_latest(r) == Len(rows)

\* the row of the instance that the handler created (160, 285) and saves
RowToSave(r) == TheValue(rowOf[r])

\* waste_classification.save() (228, 333), which may raise, and the answer
\* (231-256, 335)
Save(r) ==
    /\ pc[r] = "extracted"
    /\ LET id == RowToSave(r)
       IN  \E stored \in BOOLEAN :
              IF stored
                 \* save() updates the row, and inserts it when it is gone
                 THEN /\ rows' = [rows EXCEPT ![id] = TheValue(inst[r])]
                      /\ saves' = [saves EXCEPT ![id] = @ + 1]
                      /\ deleted' = deleted \ {id}
                      /\ Finish(r, <<"update">>,
                                Succeeded(path[r], id, TheValue(inst[r])))
                 ELSE /\ Finish(r, <<"raise">>, Caught(path[r], "DatabaseError"))
                      /\ UNCHANGED <<rows, saves, deleted>>
    /\ UNCHANGED <<apiKey, path, input, rowOf, inst, result, calls>>
    /\ UNCHANGED <<genaiKey, urlconf, info, parseVars, pdfVars, context>>

----------------------------------------------------------------------------
(* waste_classifier/urls.py: the names it imports from .views, and the     *)
(* classes views.py defines                                                *)

UrlImports ==
    {"HomeView", "HistoryView", "ClassificationDetailView", "WasteAnalysisAPIView",
     "WasteAnalysisView", "ResultsView", "DownloadReportView", "DownloadReportAPIView"}
\* route name -> view
UrlRoutes ==
    {<<"home", "HomeView">>, <<"analyze", "WasteAnalysisView">>,
     <<"history", "HistoryView">>, <<"results", "ResultsView">>,
     <<"detail", "ClassificationDetailView">>,
     <<"download_report", "DownloadReportView">>,
     <<"api_analyze", "WasteAnalysisAPIView">>,
     <<"api_download_report", "DownloadReportAPIView">>}
ViewsDefined ==
    {"HomeView", "HistoryView", "ClassificationDetailView", "WasteAnalysisAPIView",
     "WasteAnalysisView", "ResultsView"}

\* 'from .views import (...)' raises ImportError on a name views.py lacks
LoadUrlconf ==
    /\ urlconf = "not imported"
    /\ urlconf' = IF UrlImports \subseteq ViewsDefined THEN "loaded" ELSE "ImportError"
    /\ UNCHANGED <<reqVars, info, parseVars, pdfVars, context>>

----------------------------------------------------------------------------
(* Inputs *)

Paths == {"api", "form"}

SeqsUpTo(alphabet, n) == UNION {[1..k -> alphabet] : k \in 0..n}

Png == <<"image/", "png">>
SmallImage == Upload(1, Png, TRUE)
LimitImage == Upload(MaxUploadBytes, Png, TRUE)
LargeImage == Upload(MaxUploadBytes + 1, Png, TRUE)
EmptyFile == Upload(0, Png, FALSE)
TextFile == Upload(1, <<"text/", "plain">>, TRUE)
BrokenImage == Upload(1, Png, FALSE)

Images == {NoImage, SmallImage, LimitImage, LargeImage, EmptyFile, TextFile, BrokenImage}
States == {NoState, "MH", "ZZ"}

ReplyAlphabet == {"F", "J", "W", "X", "LB", "RB", "N", "O1", "O2", "O3", "O4"}
ListedTexts ==
    { <<"F", "J", "W", "O1", "W", "F">>,      \* a fenced block
      <<"F", "J", "O2", "F">>,
      <<"F", "J", "W", "O1">>,                \* fenced at the start only
      <<"W", "O1", "W", "F">>,                \* fenced at the end only
      <<"F", "W", "O2", "W", "F">>,           \* fences without the json tag
      <<"X", "W", "O1", "W", "X">>,           \* braces within other text
      <<"X", "W", "F", "J", "O1", "F">>,      \* a fenced block after other text
      <<"F", "J", "O1", "F", "W", "X">>,      \* and before other text
      <<"Opre", "X", "Osuf">>,
      <<"F", "Opre", "F", "J", "W", "LB", "RB", "W", "F", "Osuf", "F">>,
      <<"F", "Opre", "F", "J", "N", "F", "Osuf", "F">> }
Replies ==
    {Raise} \cup {Reply(t) : t \in SeqsUpTo(ReplyAlphabet, MaxReplyLen) \cup ListedTexts}

\* the inputs of the handlers that run concurrently
FewImages == {NoImage, SmallImage}
FewStates == {NoState, "MH", "ZZ"}
FewReplies ==
    {Raise, Reply(<<"O1">>), Reply(<<"O2">>), Reply(<<"O4">>), Reply(<<"X">>)}

----------------------------------------------------------------------------
(* Spec: MaxRequests handlers, interleaved step by step *)

Receiving ==
    \E r \in Requests, p \in Paths, image \in FewImages, state \in FewStates :
        Receive(r, p, image, state)
Creating == \E r \in Requests : Create(r)
Invoking == \E r \in Requests : Invoke(r)
Returning == \E r \in Requests, reply \in FewReplies : Return(r, reply)
Saving == \E r \in Requests : Save(r)

Next == Receiving \/ Creating \/ Invoking \/ Returning \/ Saving

Spec == Init /\ [][Next]_vars

----------------------------------------------------------------------------
(* SpecOne: one handler, on every input; and the import of the URL         *)
(* configuration                                                           *)

ReceivingOne ==
    \E p \in Paths, image \in Images, state \in States : Receive(1, p, image, state)
ReturningOne == \E reply \in Replies : Return(1, reply)

\* WasteAnalysisAPIView.get (122-142): the states and the categories of the model
GetInfo ==
    /\ info = None
    /\ info' = Some([available_states |-> INDIAN_STATES,
                     waste_categories |-> WASTE_CATEGORIES])
    /\ UNCHANGED <<reqVars, urlconf, parseVars, pdfVars, context>>

NextOne ==
    ReceivingOne \/ Create(1) \/ Invoke(1) \/ ReturningOne \/ Save(1) \/ LoadUrlconf
        \/ GetInfo

SpecOne == Init /\ [][NextOne]_vars

----------------------------------------------------------------------------
(* SpecAdmin: the handlers and the admin site, on which admin.py registers *)
(* the model with the change and delete views of ModelAdmin                *)

Live == (1..Len(rows)) \ deleted

\* the change view saves a form of the editable fields; the edit of one of
\* them stands for the edits
AdminChange(id) ==
    /\ id \in Live
    /\ rows[id].waste_description # Str("edited")
    /\ rows' = [rows EXCEPT ![id].waste_description = Str("edited")]
    /\ UNCHANGED <<saves, deleted, apiKey, pc, path, input, rowOf, inst, result,
                   calls, trace, response>>
    /\ UNCHANGED <<genaiKey, urlconf, info, parseVars, pdfVars, context>>

AdminDelete(id) ==
    /\ id \in Live
    /\ deleted' = deleted \cup {id}
    /\ UNCHANGED <<rows, saves, apiKey, pc, path, input, rowOf, inst, result,
                   calls, trace, response>>
    /\ UNCHANGED <<genaiKey, urlconf, info, parseVars, pdfVars, context>>

AdminChanging == \E id \in 1..Len(rows) : AdminChange(id)
AdminDeleting == \E id \in 1..Len(rows) : AdminDelete(id)

\* the requests that reach the creation of a row, and the replies that decide
\* whether the row is written
ReceivingValid ==
    \E r \in Requests :
        \* the requests go to the two handlers in turn
        Receive(r, IF r % 2 = 1 THEN "api" ELSE "form", SmallImage, "MH")
ReturningEither ==
    \E r \in Requests, reply \in {Raise, Reply(<<"O1">>)} : Return(r, reply)

NextAdmin ==
    ReceivingValid \/ Creating \/ Invoking \/ ReturningEither \/ Saving
        \/ AdminChanging \/ AdminDeleting

SpecAdmin == Init /\ [][NextAdmin]_vars

----------------------------------------------------------------------------
(* SpecParse: the two parsing functions, applied to a text *)

ParseAlphabet == {"F", "J", "W", "X", "LB", "RB", "N", "O1", "Opre", "Osuf"}
TwoBlocks ==
    { <<"F", "J", "O1", "F", "X", "F", "J", "O2", "F">>,
      <<"F", "J", "W", "O1", "W", "F", "W", "F", "J", "W", "O2", "W", "F">> }
\* a fenced block holding the object obj, with or without blanks around it
Block(obj, pad) == <<"F", "J">> \o pad \o <<obj>> \o pad \o <<"F">>
\* two fenced blocks of different objects, with other text before, between and
\* after them
TwoBlockTexts ==
    { before \o Block(first, pad) \o between \o Block(second, pad) \o after
        : before \in {<<>>, <<"X", "W">>},
          first \in {"O1", "O2"}, second \in {"O1", "O2", "O3"},
          pad \in {<<>>, <<"W">>},
          between \in {<<>>, <<"W">>, <<"W", "X", "W">>, <<"LB">>, <<"RB">>},
          after \in {<<>>, <<"W", "X">>} }
Texts ==
    SeqsUpTo(ParseAlphabet, MaxTextLen) \cup ListedTexts \cup TwoBlocks
        \cup TwoBlockTexts

InitParse ==
    /\ InitRequests
    /\ apiKey = TRUE
    /\ ptext \in Texts
    /\ pout = None
    /\ pdata = NoValue
    /\ NoPdf

\* ok, value, and for the view's function the strategies tried
ServiceOut(loaded) ==
    [by |-> "service", ok |-> loaded.ok, value |-> loaded.value, tried |-> <<>>]
ViewOut(out) ==
    [by |-> "view", ok |-> out.ok, value |-> out.value, tried |-> out.tried]

ParseInView ==
    /\ pout = None
    /\ pout' = Some(ViewOut(parse_gemini_response(ptext)))
    /\ UNCHANGED <<reqVars, urlconf, info, ptext, pdata, pdfVars, context>>

ParseInService ==
    /\ pout = None
    /\ pout' = Some(ServiceOut(parse_gemini_json_response(ptext)))
    /\ UNCHANGED <<reqVars, urlconf, info, ptext, pdata, pdfVars, context>>

NextParse == ParseInView \/ ParseInService

SpecParse == InitParse /\ [][NextParse]_vars

----------------------------------------------------------------------------
(* SpecService: analyze_waste_image on every reply                         *)

ServiceReplies ==
    {Raise} \cup {Reply(t) : t \in SeqsUpTo(ReplyAlphabet, MaxReplyLen) \cup ListedTexts}

\* the parsed replies given to _validate_response_structure: any of the five
\* keys absent, waste_classification a string or an object with any of its three
\* keys absent, a category that is or is not a code, or no string, and a
\* confidence within or outside the range, or no number
CategoryLeaves ==
    {StrLeaf(Str("MEDICAL")), StrLeaf(Str("ORGANIC")), StrLeaf(Str("PLASTIC")),
     StrLeaf(Str("medical")), StrLeaf(EmptyStr), NumLeaf(1)}
ConfidenceLeaves ==
    {NumLeaf(0), NumLeaf(50), NumLeaf(100), NumLeaf(101), NumLeaf(0 - 1),
     StrLeaf(Str("0.9"))}
WasteClassValues ==
    {StrSec} \cup
    { DictSec({item \in { <<"category", category>>, <<"confidence", confidence>>,
                          <<"description", StrLeaf(Str("d1"))>> } : item[1] \in keys})
        : keys \in SUBSET {"category", "confidence", "description"},
          category \in CategoryLeaves, confidence \in ConfidenceLeaves }
DataValues ==
    { Dict({item \in { <<"waste_classification", wc>>,
                       <<"disposal_instructions", DictSec({})>>,
                       <<"risk_assessment", DictSec({})>>,
                       <<"safety_measures", DictSec({})>>,
                       <<"additional_info", DictSec({})>> } : item[1] \in keys})
        : keys \in {RequiredKeys} \cup {RequiredKeys \ {k} : k \in RequiredKeys},
          wc \in WasteClassValues }

InitService ==
    /\ InitRequests
    /\ apiKey = TRUE
    /\ pout = None
    /\ NoPdf
    /\ \/ ptext \in {reply.text : reply \in ServiceReplies} /\ pdata = NoValue
       \/ ptext = <<>> /\ pdata \in DataValues

\* _validate_response_structure(pdata)
ValidateStructure ==
    /\ pout = None
    /\ pdata # NoValue
    /\ pout' = Some([by |-> "validate", ok |-> validate_response_structure(pdata)])
    /\ UNCHANGED <<reqVars, urlconf, info, ptext, pdata, pdfVars, context>>

\* the arguments and the dictionary returned
AnalyzeImage ==
    /\ pout = None
    /\ pdata = NoValue
    /\ \E exists \in BOOLEAN, decodable \in BOOLEAN, raised \in BOOLEAN :
          pout' = Some([by |-> "analyze", exists |-> exists, decodable |-> decodable,
                        raised |-> raised,
                        called |-> Generates(exists, decodable),
                        out |-> analyze_waste_image(exists, decodable,
                                    IF raised THEN Raise ELSE Reply(ptext))])
    /\ UNCHANGED <<reqVars, urlconf, info, ptext, pdata, pdfVars, context>>

\* the codes given to get_state_name_from_code: those of the tables, and some
\* of neither
StateCodes == INDIAN_STATES \cup {"ZZ", "mh", NoState}

\* get_state_name_from_code(state_code), as the handlers call it (views.py 167,
\* 292)
GetStateName ==
    /\ pout = None
    /\ \E state_code \in StateCodes :
          pout' = Some([by |-> "state", state_code |-> state_code,
                        state_name |-> get_state_name_from_code(state_code)])
    /\ UNCHANGED <<reqVars, urlconf, info, ptext, pdata, pdfVars, context>>

NextService == AnalyzeImage \/ ValidateStructure \/ GetStateName

SpecService == InitService /\ [][NextService]_vars

----------------------------------------------------------------------------
(* pdf_report.WasteClassificationPDFGenerator: the story generate_pdf_report *)
(* hands to doc.build                                                        *)

Flowable(kind, style, text, cells, number) ==
    [kind |-> kind, style |-> style, text |-> text, cells |-> cells, number |-> number]
Paragraph(text, style) == Flowable("Paragraph", style, text, <<>>, 0)
Spacer(height) == Flowable("Spacer", "", EmptyStr, <<>>, height)
Table(style, cells, number) == Flowable("Table", style, EmptyStr, cells, number)

\* get_predicted_category_display: the name of a code, the value itself otherwise
CategoryDisplay(category) ==
    CASE category = Str("MEDICAL") -> Str("Medical Waste")
      [] category = Str("E_WASTE") -> Str("E-Waste")
      [] category = Str("GENERAL") -> Str("General Waste")
      [] category = Str("RECYCLABLE") -> Str("Recyclable Waste")
      [] category = Str("NON_RECYCLABLE") -> Str("Non-Recyclable Waste")
      [] category = Str("HAZARDOUS") -> Str("Hazardous Waste")
      [] category = Str("ORGANIC") -> Str("Organic Waste")
      [] OTHER -> category

\* lines 153-184
add_header(classification) ==
    <<Paragraph(Str("Waste Analysis Report"), "CustomTitle"), Spacer(20),
      Table("report", <<Str(classification.state)>>, 0), Spacer(30)>>

\* lines 186-235; fileExists: os.path.exists(classification.image.path)
add_waste_image(classification, fileExists) ==
    IF ~(classification.image.present /\ fileExists) THEN <<>>
    ELSE IF ~classification.image.decodable
        \* PILImage.open raises; the except clause adds a note
        THEN <<Paragraph(Str("Image Analysis"), "SectionHeader"),
               Paragraph(Str("Note: Could not include waste image in report."), "InfoBox"),
               Spacer(20)>>
    ELSE <<Paragraph(Str("Analyzed Waste Image"), "SectionHeader"), Spacer(10),
           Table("image", <<>>, 0), Spacer(20)>>

\* line 242: round(confidence_score * 100, 2) if confidence_score else 0
ConfidencePercent(confidence_score) ==
    IF confidence_score = None \/ confidence_score = Some(0) THEN 0
    ELSE TheValue(confidence_score)

\* lines 237-268
add_classification_summary(classification) ==
    <<Paragraph(Str("Classification Summary"), "SectionHeader"),
      Table("summary",
            <<CategoryDisplay(classification.predicted_category),
              IF classification.waste_description # EmptyStr
                  THEN classification.waste_description
                  ELSE Str("No description available")>>,
            ConfidencePercent(classification.confidence_score)),
      Spacer(25)>>

\* the label and the text whether or not the field is empty
Optional_unguarded(label, text) ==
    <<Paragraph(Str(label), "HighlightText"), Paragraph(text, "ContentText")>>

\* 'if classification.<field>:' then a label and the text
Optional(label, text) ==
    IF text # EmptyStr
        THEN <<Paragraph(Str(label), "HighlightText"), Paragraph(text, "ContentText")>>
        ELSE <<>>

\* lines 270-286
add_disposal_section(classification) ==
    <<Paragraph(Str("Disposal Instructions"), "SectionHeader")>>
        \o Optional("General Disposal Method:", classification.disposal_instructions)
        \o Optional("State-Specific Regulations:", classification.state_specific_laws)
        \o Optional("Authorized Facilities:", classification.authorized_facilities)
        \o <<Spacer(20)>>

\* lines 288-300
add_risk_assessment_section(classification) ==
    <<Paragraph(Str("Risk Assessment"), "SectionHeader")>>
        \o Optional("Health Hazards:", classification.health_hazards)
        \o Optional("Environmental Risks:", classification.environmental_risks)
        \o <<Spacer(20)>>

\* lines 302-318
add_safety_measures_section(classification) ==
    <<Paragraph(Str("Safety Measures"), "SectionHeader")>>
        \o Optional("Precautions:", classification.precautions)
        \o Optional("Protective Equipment:", classification.protective_equipment)
        \o Optional("Emergency Procedures:", classification.emergency_procedures)
        \o <<Spacer(20)>>

\* lines 320-332
add_additional_info_section(classification) ==
    <<Paragraph(Str("Additional Information"), "SectionHeader")>>
        \o Optional("Recyclability Information:", classification.recyclability_info)
        \o Optional("Cost Implications:", classification.cost_implications)
        \o <<Spacer(20)>>

\* lines 334-362
add_footer(classification) ==
    <<Spacer(30),
      Paragraph(Str("Important Disclaimer"), "SectionHeader"),
      Paragraph(Str("Disclaimer"), "InfoBox"),
      Paragraph(Str("Contact Information"), "SectionHeader"),
      Paragraph(Str("Contact"), "ContentText"),
      Spacer(20),
      Paragraph(Str("End of Report"), "InfoBox")>>

\* lines 121-141
generate_pdf_report(classification, fileExists) ==
    add_header(classification)
        \o (IF classification.image.present
               THEN add_waste_image(classification, fileExists) ELSE <<>>)
        \o add_classification_summary(classification)
        \o add_disposal_section(classification)
        \o add_risk_assessment_section(classification)
        \o add_safety_measures_section(classification)
        \o add_additional_info_section(classification)
        \o add_footer(classification)

----------------------------------------------------------------------------
(* SpecPdf: generate_pdf_report on a classification whose optional fields  *)
(* are each empty or not                                                   *)

OptionalText == {EmptyStr, Str("text")}
PdfImages == {NoImage, SmallImage, BrokenImage}
PdfRows ==
    [image : PdfImages, state : {"MH"},
     predicted_category : {EmptyStr, Str("MEDICAL")},
     confidence_score : {None, Some(0), Some(90)},
     waste_description : OptionalText,
     disposal_instructions : OptionalText, state_specific_laws : OptionalText,
     authorized_facilities : OptionalText,
     health_hazards : OptionalText, environmental_risks : OptionalText,
     precautions : OptionalText, protective_equipment : OptionalText,
     emergency_procedures : OptionalText,
     recyclability_info : OptionalText, cost_implications : OptionalText,
     gemini_raw_response : {None}]

InitPdf ==
    /\ InitRequests
    /\ apiKey = TRUE
    /\ NoParse
    /\ pdfRow \in {Some(row) : row \in PdfRows}
    /\ story = <<>>

GeneratePdf ==
    /\ story = <<>>
    /\ \E fileExists \in BOOLEAN :
          story' = generate_pdf_report(TheValue(pdfRow), fileExists)
    /\ UNCHANGED <<reqVars, urlconf, info, parseVars, pdfRow, context>>

NextPdf == GeneratePdf

SpecPdf == InitPdf /\ [][NextPdf]_vars

----------------------------------------------------------------------------
(* SpecRead: the handlers, and the operations that read the rows: the pages *)
(* of HomeView, HistoryView, ClassificationDetailView and ResultsView, GET  *)
(* on /api/analyze/, and generate_pdf_report for a stored row               *)

\* the instance of row id that a view holds, with the attribute the view
\* attaches: round(c.confidence_score * 100, 2) if c.confidence_score else 0
WithPercentage(id) ==
    [pk |-> id, row |-> rows[id],
     confidence_percentage |-> ConfidencePercent(rows[id].confidence_score)]

\* WasteClassification.objects.all()[:limit]: Meta.ordering is '-created_at',
\* the newest row first
Newest(limit) ==
    LET count == IF Cardinality(Live) < limit THEN Cardinality(Live) ELSE limit
    IN  [i \in 1..count |->
            WithPercentage(CHOOSE id \in Live :
                               Cardinality({later \in Live : later > id}) = i - 1)]

\* a view that stores the percentage it has computed
HistoryView_saving ==
    /\ context' = Some([view |-> "history", objects |-> Newest(Cardinality(Live)),
                        total |-> Cardinality(Live)])
    /\ rows' = [id \in 1..Len(rows) |->
                   [rows[id] EXCEPT
                       !.confidence_score = Some(ConfidencePercent(@))]]
    /\ UNCHANGED <<saves, deleted, apiKey, genaiKey, pc, path, input, rowOf, inst,
                   result, calls, trace, response>>
    /\ UNCHANGED <<urlconf, info, parseVars, pdfVars>>

\* HistoryView.get_context_data (95-104)
HistoryView ==
    /\ context' = Some([view |-> "history", objects |-> Newest(Cardinality(Live)),
                        total |-> Cardinality(Live)])
    /\ UNCHANGED <<reqVars, urlconf, info, parseVars, pdfVars>>

\* HomeView.get_context_data (79-92): the six newest rows and the count of all
HomeView ==
    /\ context' = Some([view |-> "home", objects |-> Newest(6),
                        total |-> Cardinality(Live)])
    /\ UNCHANGED <<reqVars, urlconf, info, parseVars, pdfVars>>

\* a DetailView on the row pk: get_object answers 404 when there is no such row
DetailContext(view, pk) ==
    IF pk \in Live
        THEN [view |-> view, objects |-> <<WithPercentage(pk)>>, total |-> 1]
        ELSE [view |-> "404", objects |-> <<>>, total |-> 0]

\* ClassificationDetailView (107-115)
ClassificationDetailView(pk) ==
    /\ context' = Some(DetailContext("detail", pk))
    /\ UNCHANGED <<reqVars, urlconf, info, parseVars, pdfVars>>

\* ResultsView (346-354)
ResultsView(pk) ==
    /\ context' = Some(DetailContext("results", pk))
    /\ UNCHANGED <<reqVars, urlconf, info, parseVars, pdfVars>>

\* generate_waste_classification_pdf(classification) for the stored row pk
GenerateReport(pk) ==
    /\ pk \in Live
    /\ \E fileExists \in BOOLEAN :
          /\ pdfRow' = Some(rows[pk])
          /\ story' = generate_pdf_report(rows[pk], fileExists)
    /\ UNCHANGED <<reqVars, urlconf, info, parseVars, context>>

\* the requests come one after the other, to the two handlers in turn
ReceivingInTurn ==
    \E r \in Requests :
        /\ IF r = 1 THEN TRUE ELSE pc[r - 1] = "done"
        /\ Receive(r, IF r % 2 = 1 THEN "api" ELSE "form", SmallImage, "MH")

Pks == 1..(MaxRequests + 1)
Detailing == \E pk \in Pks : ClassificationDetailView(pk)
Resulting == \E pk \in Pks : ResultsView(pk)
Reporting == \E pk \in Pks : GenerateReport(pk)

NextRead ==
    ReceivingInTurn \/ Creating \/ Invoking \/ ReturningEither \/ Saving
        \/ HomeView \/ HistoryView \/ Detailing \/ Resulting \/ GetInfo \/ Reporting

SpecRead == Init /\ [][NextRead]_vars

----------------------------------------------------------------------------
(* Claims *)

StepRank(step) ==
    CASE step = "validate" -> 1 [] step = "create" -> 2 [] step = "call" -> 3
      [] step = "return" -> 4 [] step = "parse" -> 5 [] step = "update" -> 6
      [] step = "respond" -> 7 [] OTHER -> 0
InOrder(tr) ==
    \A i, j \in 1..Len(tr) :
        (i < j /\ tr[i] # "raise" /\ tr[j] # "raise") => StepRank(tr[i]) < StepRank(tr[j])

\* C1: the steps of an API POST are taken in the order validation, row creation,
\* external call, parsing, row update, response; the external API is called only
\* for a request that passed validation and whose row exists, and a row is
\* updated only after the external call of its own request has returned.
C1_StepOrder ==
    \A r \in Requests :
        path[r] = "api" =>
            /\ InOrder(trace[r])
            /\ calls[r] > 0 =>
                  /\ is_valid(input[r].image, input[r].state)
                  /\ rowOf[r] # {}
                  /\ rowOf[r] \subseteq 1..Len(rows)
            /\ \A id \in rowOf[r] : saves[id] > 0 => "return" \in Range(trace[r])
C1_Witness ==
    \E r \in Requests :
        /\ path[r] = "api"
        /\ trace[r] = <<"validate", "create", "call", "return", "parse", "update",
                        "respond">>

BadApiInput(i) ==
    \/ ~i.image.present
    \/ i.image.size > 10 * 1024 * 1024
    \/ ~StartsWith(i.image.content_type, <<"image/">>)
    \/ i.state = NoState
    \/ i.state \notin INDIAN_STATES

\* C2: an API POST with a missing, oversized or non-image upload, or a missing or
\* unknown state, is answered 400 with success false and errors, creates no row
\* and makes no external call; an upload of exactly 10*1024*1024 bytes that is
\* otherwise acceptable is not answered 400.
C2_BadInputRejected ==
    \A r \in Requests :
        /\ (path[r] = "api" /\ BadApiInput(input[r])) =>
              /\ pc[r] = "done"
              /\ response[r].status = 400
              /\ ~response[r].success
              /\ response[r].errors # {}
              /\ rowOf[r] = {}
              /\ calls[r] = 0
        /\ (/\ path[r] = "api"
            /\ ~BadApiInput(input[r])
            /\ input[r].image.size = 10 * 1024 * 1024
            /\ input[r].image.decodable) => response[r].status # 400
C2_Witness ==
    \E r \in Requests :
        /\ path[r] = "api"
        /\ input[r].image.size > 10 * 1024 * 1024
        /\ input[r].state \in INDIAN_STATES
        /\ response[r].status = 400
        /\ rows = <<>>

ParseFailure(r) ==
    /\ pc[r] = "done"
    /\ \/ response[r].error = "Failed to parse API response as JSON"
       \/ response[r].flash = "Failed to parse analysis response. Please try again."
AllStrategiesFail(text) ==
    LET cleaned == Strip(text)
    IN  /\ ~parse_gemini_json_response(text).ok
        /\ ~(BlockApplies(cleaned) /\ Loads(BlockCandidate(cleaned)).ok)
        /\ ~(RegexFenceApplies(cleaned) /\ Loads(RegexFenceCandidate(cleaned)).ok)
        /\ ~(BraceApplies(cleaned) /\ Loads(BraceCandidate(cleaned)).ok)

\* C3: a request ends in a JSON-parse failure only when the fence-stripped parse,
\* the first-block strategy, the regex fenced block and the brace span have all
\* failed on the reply.
C3_ParseFailureOnlyWhenAllFail ==
    \A r \in Requests :
        ParseFailure(r) =>
            \A res \in result[r] : \A raw \in res.raw_response : AllStrategiesFail(raw)

ReplyText(data, section, key) ==
    LET sec == Get(data.items, section, DictSec({}))
    IN  IF Has(sec.items, key) THEN Get(sec.items, key, NoLeaf).txt ELSE EmptyStr
ResultFields(rec, category) ==
    <<category, rec.waste_description, rec.disposal_instructions,
      rec.state_specific_laws, rec.authorized_facilities, rec.health_hazards,
      rec.environmental_risks, rec.precautions, rec.protective_equipment,
      rec.emergency_procedures, rec.recyclability_info, rec.cost_implications>>
ReplyFields(data) ==
    <<ReplyText(data, "waste_classification", "category"),
      ReplyText(data, "waste_classification", "description"),
      ReplyText(data, "disposal_instructions", "general_method"),
      ReplyText(data, "disposal_instructions", "state_specific_laws"),
      ReplyText(data, "disposal_instructions", "authorized_facilities"),
      ReplyText(data, "risk_assessment", "health_hazards"),
      ReplyText(data, "risk_assessment", "environmental_risks"),
      ReplyText(data, "safety_measures", "precautions"),
      ReplyText(data, "safety_measures", "protective_equipment"),
      ReplyText(data, "safety_measures", "emergency_procedures"),
      ReplyText(data, "additional_info", "recyclability"),
      ReplyText(data, "additional_info", "cost_implications")>>

\* The four candidates as the claim words them, on the trimmed text c.
IsJsonFenceAt(c, i) == i + 1 <= Len(c) /\ c[i] = "F" /\ c[i + 1] = "J"
FirstJsonFence(c) ==
    CHOOSE i \in 1..Len(c) : IsJsonFenceAt(c, i) /\ \A k \in 1..(i - 1) : ~IsJsonFenceAt(c, k)
LastFence(c) ==
    CHOOSE j \in 1..Len(c) : c[j] = "F" /\ \A k \in (j + 1)..Len(c) : c[k] # "F"
NextFence(c, i) ==
    CHOOSE j \in i..Len(c) : c[j] = "F" /\ \A k \in i..(j - 1) : c[k] # "F"
HasJsonFence(c) == \E i \in 1..Len(c) : IsJsonFenceAt(c, i)
Between(c, i, j) == [k \in 1..(j - i - 1) |-> c[i + k]]

StrategyApplies(k, c) ==
    CASE k = 1 -> TRUE
      [] k = 2 -> HasJsonFence(c) /\ FirstJsonFence(c) + 2 < LastFence(c)
      [] k = 3 -> HasJsonFence(c) /\ \E j \in (FirstJsonFence(c) + 2)..Len(c) : c[j] = "F"
      [] k = 4 -> \E i, j \in 1..Len(c) :
                     /\ HasOpenBrace(c[i]) /\ HasCloseBrace(c[j])
                     /\ i < j \/ (i = j /\ c[i] # "LB" /\ c[i] # "RB")
StrategyCandidate(k, c) ==
    CASE k = 1 -> c
      [] k = 2 -> Strip(Between(c, FirstJsonFence(c) + 1, LastFence(c)))
      [] k = 3 -> Strip(Between(c, FirstJsonFence(c) + 1,
                                NextFence(c, FirstJsonFence(c) + 2)))
      [] k = 4 ->
            LET i == CHOOSE i \in 1..Len(c) :
                        HasOpenBrace(c[i]) /\ \A k2 \in 1..(i - 1) : ~HasOpenBrace(c[k2])
                j == CHOOSE j \in 1..Len(c) :
                        HasCloseBrace(c[j]) /\ \A k2 \in (j + 1)..Len(c) : ~HasCloseBrace(c[k2])
            IN  IF c[j] = "Opre" THEN Between(c, i - 1, j) \o <<"OpreCut">>
                ELSE Between(c, i - 1, j + 1)
StrategySucceeds(k, c) == StrategyApplies(k, c) /\ Loads(StrategyCandidate(k, c)).ok

\* C4: parse_gemini_response tries the direct parse, the text between the first
\* json fence and the last fence, the regex-matched fenced block and the brace
\* span in this order, each when it applies and no earlier one has succeeded; it
\* returns the value parsed from the first candidate that parses, and raises
\* exactly when no applicable candidate parses.
C4_FirstSuccessfulStrategy ==
    \A out \in pout :
        out.by = "view" =>
            LET c == Strip(ptext)
                tried == Range(out.tried)
            IN  /\ \A i, j \in 1..Len(out.tried) : i < j => out.tried[i] < out.tried[j]
                /\ \A k \in 1..4 :
                      k \in tried <=>
                          /\ StrategyApplies(k, c)
                          /\ \A e \in 1..(k - 1) : ~StrategySucceeds(e, c)
                /\ out.ok <=> \E k \in 1..4 : StrategySucceeds(k, c)
                /\ out.ok =>
                      LET last == out.tried[Len(out.tried)]
                      IN  /\ StrategySucceeds(last, c)
                          /\ out.value = Loads(StrategyCandidate(last, c)).value
                /\ ~out.ok => out.value = NoValue
C4_Witness ==
    \E out \in pout :
        /\ out.by = "view"
        /\ out.ok
        /\ out.tried = <<1, 2, 3>>
        /\ out.value = ObjFull

\* C5: when an API POST is answered 200, every result field of the body equals
\* the field of the request's row, which equals the value of the parsed reply
\* (the empty string for an absent sub-key), and the row holds the raw reply.
C5_ResponseIsRowIsReply ==
    \A r \in Requests :
        (path[r] = "api" /\ response[r].status = 200) =>
            \A id \in rowOf[r], res \in result[r], body \in response[r].data :
                /\ ResultFields(body, body.waste_category)
                      = ResultFields(rows[id], rows[id].predicted_category)
                /\ ResultFields(rows[id], rows[id].predicted_category)
                      = ReplyFields(res.data)
                /\ rows[id].gemini_raw_response = res.raw_response

OnlyImageAndState(row) ==
    /\ row.predicted_category = EmptyStr
    /\ row.confidence_score = None
    /\ row.gemini_raw_response = None
    /\ \A i \in 1..Len(TextFields) : row[TextFields[i]] = EmptyStr
\* a step of request r that writes row id: the row is the one r created, r's
\* external call has returned and r has not written the row before
WrittenByItsRequest(id) ==
    \E r \in Requests :
        /\ rowOf[r] = {id}
        /\ trace[r] # trace'[r]
        /\ \E i \in 1..Len(trace[r]) : trace[r][i] = "return"
        /\ saves[id] = 0 /\ saves'[id] = 1
HandlerStep ==
    \* a new row has only its image and its state
    /\ \A id \in (1..Len(rows')) \ (1..Len(rows)) : OnlyImageAndState(rows'[id])
    \* a row is written once, by its request, after the external call
    /\ \A id \in 1..Len(rows) :
          (rows'[id] # rows[id] \/ saves'[id] # saves[id]) => WrittenByItsRequest(id)
    \* no row is deleted and the number of rows does not decrease
    /\ Live \subseteq (1..Len(rows')) \ deleted'
    /\ Cardinality((1..Len(rows')) \ deleted') >= Cardinality(Live)

\* C6 as stated: over any sequence of requests a row is created with only image
\* and state set, is modified at most once afterwards, only by the request that
\* created it and only after that request's external call returned, and is never
\* deleted; the number of rows never decreases.
C6_RowLifecycle_AnyRequest == [][HandlerStep]_vars

\* C6: every step of the two analysis handlers creates a row with only image and
\* state set, or writes a row once, by the request that created it and after
\* that request's external call returned, and never deletes a row; a row is
\* edited otherwise, or deleted, and the number of rows decreases, only by the
\* admin site.
C6_RowLifecycle == [][HandlerStep \/ AdminChanging \/ AdminDeleting]_vars
\* a row written by its request, then deleted on the admin site
C6_Witness ==
    \E r \in Requests :
        /\ rowOf[r] # None
        /\ TheValue(rowOf[r]) \in deleted
        /\ saves[TheValue(rowOf[r])] = 1
        /\ ~OnlyImageAndState(rows[TheValue(rowOf[r])])

\* C7: an exception raised in a handler after validation is answered, on the API
\* path with 500, success false and an error, on the form path with a flash
\* message and a redirect to the analyze form.
C7_ExceptionsAnswered ==
    \A r \in Requests :
        (pc[r] = "done" /\ "raise" \in Range(trace[r])) =>
            IF path[r] = "api"
                THEN /\ response[r].status = 500
                     /\ ~response[r].success
                     /\ response[r].error # ""
                ELSE /\ response[r].status = 302
                     /\ response[r].redirect = "analyze"
                     /\ response[r].flash # ""
C7_Witness ==
    \E r \in Requests :
        /\ path[r] = "api"
        /\ trace[r] = <<"validate", "create", "call", "return", "parse", "raise",
                        "respond">>
        /\ response[r].status = 500

\* C8: the external vision API is invoked at most once for a request.
C8_CalledAtMostOnce == \A r \in Requests : calls[r] <= 1
C8_Witness ==
    \E r \in Requests :
        /\ pc[r] = "done"
        /\ calls[r] = 1
        /\ response[r].error = "Gemini API error"

IsHeading(flowable) ==
    flowable.kind = "Paragraph" /\ flowable.style \in {"CustomTitle", "SectionHeader"}
Headings(st) ==
    LET h == SelectSeq(st, IsHeading) IN [i \in 1..Len(h) |-> h[i].text]
SectionHeadings ==
    <<Str("Classification Summary"), Str("Disposal Instructions"),
      Str("Risk Assessment"), Str("Safety Measures"), Str("Additional Information"),
      Str("Important Disclaimer"), Str("Contact Information")>>
\* the optional sub-paragraphs: label, field value, heading of their section
OptionalParts(row) ==
    { <<"General Disposal Method:", row.disposal_instructions, "Disposal Instructions">>,
      <<"State-Specific Regulations:", row.state_specific_laws, "Disposal Instructions">>,
      <<"Authorized Facilities:", row.authorized_facilities, "Disposal Instructions">>,
      <<"Health Hazards:", row.health_hazards, "Risk Assessment">>,
      <<"Environmental Risks:", row.environmental_risks, "Risk Assessment">>,
      <<"Precautions:", row.precautions, "Safety Measures">>,
      <<"Protective Equipment:", row.protective_equipment, "Safety Measures">>,
      <<"Emergency Procedures:", row.emergency_procedures, "Safety Measures">>,
      <<"Recyclability Information:", row.recyclability_info, "Additional Information">>,
      <<"Cost Implications:", row.cost_implications, "Additional Information">> }
Positions(st, flowable) == {i \in 1..Len(st) : st[i] = flowable}
\* the heading that precedes position i most closely
HeadingBefore(st, i) ==
    st[Max({k \in 1..i : IsHeading(st[k])})].text

\* C9: for a classification with any subset of its optional text fields empty and
\* any confidence, the story is the title, the image part if there is an image,
\* then the summary, disposal, risk, safety, additional-information and footer
\* headings in this order; each optional sub-paragraph is there, in its section,
\* exactly when its field is not empty; a missing confidence is shown as 0 and a
\* missing description as 'No description available'.
C9_PdfStory ==
    \A row \in pdfRow :
        story # <<>> =>
            /\ \E imagePart \in {<<>>, <<Str("Analyzed Waste Image")>>,
                                 <<Str("Image Analysis")>>} :
                  /\ Headings(story)
                        = <<Str("Waste Analysis Report")>> \o imagePart \o SectionHeadings
                  /\ ~row.image.present => imagePart = <<>>
            /\ \A part \in OptionalParts(row) :
                  LET at == Positions(story, Paragraph(Str(part[1]), "HighlightText"))
                  IN  /\ part[2] = EmptyStr <=> at = {}
                      /\ Cardinality(at) <= 1
                      /\ \A i \in at :
                            /\ story[i + 1] = Paragraph(part[2], "ContentText")
                            /\ HeadingBefore(story, i) = Str(part[3])
            /\ \E i \in 1..Len(story) :
                  /\ story[i].kind = "Table" /\ story[i].style = "summary"
                  /\ row.confidence_score = None => story[i].number = 0
                  /\ story[i].cells[2] =
                        IF row.waste_description = EmptyStr
                            THEN Str("No description available")
                            ELSE row.waste_description
C9_Witness ==
    \E row \in pdfRow :
        /\ story # <<>>
        /\ row.confidence_score = None
        /\ row.waste_description = EmptyStr
        /\ row.health_hazards = EmptyStr
        /\ row.precautions # EmptyStr
        /\ row.image.present

\* C10: the URL configuration loads: every view it imports is one views.py
\* defines.
C10_UrlconfLoads == urlconf # "ImportError"


OverTheCap(r) == input[r].image.present /\ input[r].image.size > MaxUploadBytes
\* the handler of r ended for a cause outside the request: the database, the
\* API key, the stored file
EndedOutside(r) ==
    /\ pc[r] = "done"
    /\ \/ response[r] \in {Caught(path[r], "DatabaseError"),
                           Caught(path[r], "GEMINI_API_KEY not found in settings")}
       \/ response[r] = AnalysisFailed(path[r], "Image file not found")

\* C11: an upload larger than 10 MB sent to the API is answered 400 before any row
\* is created; the same upload sent with a state through the form is not
\* rejected: it goes on to the creation of a row and to the external call, which
\* only the database, a missing API key or a missing stored file prevent.
C11_CapOnlyOnApi ==
    \A r \in Requests :
        (pc[r] # "idle" /\ OverTheCap(r)) =>
            /\ path[r] = "api" =>
                  /\ pc[r] = "done" /\ response[r].status = 400
                  /\ "image" \in response[r].errors
                  /\ rowOf[r] = {} /\ calls[r] = 0
            /\ (path[r] = "form" /\ input[r].state # NoState) =>
                  /\ response[r] # FlashError("Please provide both image and state.", "")
                  /\ (pc[r] = "done" /\ calls[r] = 0) => EndedOutside(r)
                  /\ (pc[r] \notin {"validated"} /\ rowOf[r] = {}) => EndedOutside(r)
C11_Witness ==
    \E r \in Requests :
        /\ path[r] = "form" /\ OverTheCap(r)
        /\ rowOf[r] # {} /\ calls[r] = 1
        /\ rows[TheValue(rowOf[r])].image = input[r].image

\* the codes the ChoiceField of the serializer accepts, among the codes of the
\* model and the codes posted
SerializerStates == {state \in INDIAN_STATES \cup States : StateFieldAccepts(state)}

\* C12: the state enumeration of the model, which the API offers and the
\* serializer accepts, has exactly 36 codes and the category enumeration exactly
\* 7 values.
C12_EnumerationSizes ==
    \A offered \in info :
        /\ Cardinality(offered.available_states) = 36
        /\ SerializerStates = offered.available_states
        /\ Cardinality(offered.waste_categories) = 7
        /\ Cardinality({c[1] : c \in offered.waste_categories}) = 7

\* what request q holds in the process
Local(q) ==
    <<pc[q], path[q], input[q], rowOf[q], inst[q], result[q], calls[q], trace[q],
      response[q]>>
LocalAfter(q) ==
    <<pc'[q], path'[q], input'[q], rowOf'[q], inst'[q], result'[q], calls'[q],
      trace'[q], response'[q]>>
\* a step of request r: nothing another request holds changes, the only row
\* written is the row r created, and the key of the process is the one of the
\* settings, whoever stored it
OwnStep(r) ==
    /\ \A q \in Requests \ {r} : LocalAfter(q) = Local(q)
    /\ \A id \in 1..Len(rows) :
          (rows'[id] # rows[id] \/ saves'[id] # saves[id]) => rowOf[r] = {id}
    /\ Len(rows') > Len(rows) => (Len(rows') = Len(rows) + 1 /\ rowOf'[r] = {Len(rows')})
    /\ genaiKey' \in {genaiKey, Some("GEMINI_API_KEY")}
\* the fields of a written row are the ones extracted from the reply to the
\* request that created it
FromOwnReply(r) ==
    \A id \in rowOf[r] :
        saves[id] > 0 =>
            \E res \in result[r], raw \in UNION {res2.raw_response : res2 \in result[r]} :
                rows[id] = Extracted(NewRow(input[r].image, input[r].state),
                                     parse_gemini_response(raw).value, raw)
\* two requests that were given the same differ in nothing but the row
SameGiven(r, q) ==
    /\ path[r] = path[q] /\ input[r] = input[q] /\ result[r] = result[q]
    /\ trace[r] = trace[q]
SameAnswer(r, q) ==
    /\ [response[r] EXCEPT !.data = {}, !.pk = {}] = [response[q] EXCEPT !.data = {}, !.pk = {}]
    /\ \A a \in response[r].data : \E b \in response[q].data : [a EXCEPT !.id = 0] = [b EXCEPT !.id = 0]

StructurallyInvalid(value) ==
    value.t # "dict" \/ ~validate_response_structure(value)

\* C14: analyze_waste_image reports the first cause that applies, with its own
\* error string: the image file is missing (and generate_content is not called),
\* the reply is empty, the reply does not parse as JSON, the reply parses to a
\* value of the wrong structure; only when none applies it returns success with
\* the parsed data; the parse and the structure failures carry the raw reply,
\* the other two do not.
C14_FailurePrecedence ==
    \A a \in pout :
        (a.by = "analyze" /\ a.decodable /\ ~a.raised) =>
            LET parsed == parse_gemini_json_response(ptext)
            IN  IF ~a.exists
                    THEN a.out = Failure("Image file not found", None) /\ ~a.called
                ELSE IF ptext = <<>>
                    THEN a.out = Failure("No response received from Gemini API", None)
                ELSE IF ~parsed.ok
                    THEN a.out = Failure("Failed to parse API response as JSON",
                                         Some(ptext))
                ELSE IF StructurallyInvalid(parsed.value)
                    THEN a.out = Failure("Invalid response structure from Gemini API",
                                         Some(ptext))
                ELSE /\ a.out.success /\ a.out.data = parsed.value
                     /\ a.out.raw_response = Some(ptext)

\* the reply without the blank text around it, without its leading and without
\* its trailing fence
Unfenced(text) ==
    LET c == Strip(text)
        led == IF Len(c) >= 2 /\ c[1] = "F" /\ c[2] = "J" THEN SubSeq(c, 3, Len(c))
               ELSE IF Len(c) >= 1 /\ c[1] = "F" THEN SubSeq(c, 2, Len(c))
               ELSE c
        cut == IF Len(led) >= 1 /\ led[Len(led)] = "F"
                   THEN SubSeq(led, 1, Len(led) - 1) ELSE led
    IN  Strip(cut)

\* C15: _parse_gemini_json_response trims the reply, removes a leading fence
\* (with the json tag, else bare), removes a trailing fence whether or not a leading
\* one was found, trims again and parses what is left; it returns the parsed
\* value, and raises when that one parse fails, whatever else the reply holds.
C15_ServiceParse ==
    \A out \in pout :
        out.by = "service" =>
            /\ out.ok = Loads(Unfenced(ptext)).ok
            /\ out.value = Loads(Unfenced(ptext)).value
            /\ ~out.ok => out.value = NoValue
\* a reply with a trailing fence only, parsed
C15_Witness ==
    \E out \in pout :
        /\ out.by = "service" /\ out.ok
        /\ ~StartsWith(Strip(ptext), Fence)
        /\ EndsWith(Strip(ptext), Fence)

KeysOf(value) == {item[1] : item \in value.items}
ValueAt(value, key) == (CHOOSE item \in value.items : item[1] = key)[2]
\* the condition of the claim on a parsed reply
WellFormed(data) ==
    /\ {"waste_classification", "disposal_instructions", "risk_assessment",
        "safety_measures", "additional_info"} \subseteq KeysOf(data)
    /\ LET wc == ValueAt(data, "waste_classification")
       IN  /\ {"category", "confidence", "description"} \subseteq KeysOf(wc)
           /\ ValueAt(wc, "category").t = "str"
           /\ ValueAt(wc, "category").txt \in {c[1] : c \in WASTE_CATEGORIES}
           /\ ValueAt(wc, "confidence").t = "num"
           /\ ValueAt(wc, "confidence").n \in 0..100

\* C16: _validate_response_structure returns True exactly for a parsed reply that
\* has the five top-level keys, whose waste_classification has category,
\* confidence and description, whose category is one of the seven codes of
\* WASTE_CATEGORIES and whose confidence is a number from 0.0 to 1.0; the codes
\* it accepts are the codes of WASTE_CATEGORIES.
C16_ValidatesStructure ==
    /\ \A out \in pout : out.by = "validate" => (out.ok <=> WellFormed(pdata))
    /\ pout # None => CategoryCodes = {c[1] : c \in WASTE_CATEGORIES}
\* accepted at the upper limit of the confidence, with the last of the codes
C16_Witness ==
    \E out \in pout :
        /\ out.by = "validate" /\ out.ok
        /\ ValueAt(ValueAt(pdata, "waste_classification"), "confidence").n = 100
        /\ ValueAt(ValueAt(pdata, "waste_classification"), "category").txt = Str("ORGANIC")

\* the positions of the objects and of the json fences of a text
ObjectsAt(text) == {i \in 1..Len(text) : text[i] \in ObjTokens}
JsonFencesAt(text) == {i \in 1..Len(text) : IsJsonFenceAt(text, i)}
\* two fenced json blocks, each holding one object, and no other object
HasTwoBlocks(text) ==
    /\ Cardinality(JsonFencesAt(text)) = 2
    /\ Cardinality(ObjectsAt(text)) = 2
    /\ Cardinality(Occurrences(text, Fence)) = 4
    /\ \A i \in ObjectsAt(text) :
          \E b \in JsonFencesAt(text) :
              /\ b < i
              /\ NextFence(text, b + 2) > i
              /\ \A k \in (b + 2)..(NextFence(text, b + 2) - 1) : k = i \/ IsSpace(text[k])

\* C17: on a reply that is not directly parseable and holds two separate fenced
\* json blocks, each with a valid object, parse_gemini_response returns the
\* object of the first block.
C17_FirstOfTwoBlocks ==
    \A out \in pout :
        (out.by = "view" /\ HasTwoBlocks(ptext)) =>
            /\ out.ok
            /\ out.value = ObjValue(ptext[Min(ObjectsAt(ptext))])
\* the objects differ, and the first block is not where the text starts
C17_Witness ==
    \E out \in pout :
        /\ out.by = "view" /\ HasTwoBlocks(ptext) /\ out.ok
        /\ ptext[Min(ObjectsAt(ptext))] # ptext[Max(ObjectsAt(ptext))]
        /\ ptext[1] = "X"
        /\ out.tried = <<1, 2, 3>>

C19_WrittenRowsValid ==
    \A id \in 1..Len(rows) :
        saves[id] > 0 =>
            /\ rows[id].predicted_category \in {c[1] : c \in WASTE_CATEGORIES}
            /\ rows[id].confidence_score # None
            /\ \A confidence \in rows[id].confidence_score : confidence \in 0..100
\* a row written with the defaults of the view, not with the validated values
C19_Witness ==
    \E id \in 1..Len(rows) :
        /\ saves[id] > 0
        /\ rows[id].predicted_category = Str("GENERAL")
        /\ rows[id].confidence_score = Some(50)
        /\ \E res \in result[1] : res.success /\ res.data = ObjEmbedded(<<"F", "J", "W", "LB", "RB", "W", "F">>)

\* C20: every persisted row has a state that is one of the enumerated state
\* codes, whichever handler created the row.
C20_RowStatesEnumerated ==
    \A id \in (1..Len(rows)) \ deleted : rows[id].state \in INDIAN_STATES

AllSet(row) ==
    /\ row.predicted_category # EmptyStr
    /\ row.confidence_score # None
    /\ row.gemini_raw_response # None
\* the fields that the view reads from the object it parses out of the reply raw:
\* the value of the key, and the default of the view for an absent key
SetFrom(row, raw) ==
    LET data == parse_gemini_response(raw).value
        waste_class == Get(data.items, "waste_classification", DictSec({}))
    IN  /\ row.gemini_raw_response = Some(raw)
        /\ row.predicted_category =
              (IF Has(waste_class.items, "category")
                  THEN ReplyText(data, "waste_classification", "category")
                  ELSE Str("GENERAL"))
        /\ row.confidence_score =
              Some(IF Has(waste_class.items, "confidence")
                      THEN Get(waste_class.items, "confidence", NoLeaf).n ELSE 50)
        /\ Tail(ResultFields(row, row.predicted_category)) = Tail(ReplyFields(data))
EndedInError(r) ==
    /\ pc[r] = "done"
    /\ response[r].status = 500 \/ response[r].redirect = "analyze"

\* C21: in every reachable state a row either has all its result fields as they
\* were created (empty strings, no confidence, no raw response) or has all of
\* them set from the reply of one request; and the row of a request that has
\* ended in an error after creating it is as it was created.
C21_AllOrNothing ==
    /\ \A id \in 1..Len(rows) :
          \/ OnlyImageAndState(rows[id])
          \/ /\ AllSet(rows[id])
             /\ \E r \in Requests : \E res \in result[r] :
                   /\ res.success
                   /\ SetFrom(rows[id], TheValue(res.raw_response))
    /\ \A r \in Requests : \A id \in rowOf[r] :
          EndedInError(r) => OnlyImageAndState(rows[id])
\* one request has written its row from its reply while the other, whose field
\* extraction raised, has ended in an error and left its row as created
C21_Witness ==
    \E r, q \in Requests :
        /\ EndedInError(r) /\ rowOf[r] # None
        /\ trace[r] = <<"validate", "create", "call", "return", "parse", "raise",
                        "respond">>
        /\ result[r] # None /\ TheValue(result[r]).data = ObjStrSection
        /\ OnlyImageAndState(rows[TheValue(rowOf[r])])
        /\ pc[q] = "done" /\ rowOf[q] # None
        /\ AllSet(rows[TheValue(rowOf[q])])
        /\ rows[TheValue(rowOf[q])].predicted_category = Str("ORGANIC")

\* C22: whenever analyze_waste_image reports success for a raw reply,
\* parse_gemini_response applied to the same raw reply succeeds and yields the
\* object that the service parsed and validated, and the handler does not answer
\* with its parse failure.
C22_ViewParsesWhatServiceParsed ==
    \A r \in Requests : \A res \in result[r] :
        res.success =>
            LET parsed == parse_gemini_response(TheValue(res.raw_response))
            IN  /\ parsed.ok
                /\ parsed.value = res.data
                /\ ~ParseFailure(r)

Called(r) == \E i \in 1..Len(trace[r]) : trace[r][i] = "call"
\* the handler of r has gone past its call of analyze_waste_image
PastAnalysis(r) ==
    /\ pc[r] \in {"extracted", "done"}
    /\ rowOf[r] # None
    /\ apiKey
\* the handler of r has read analysis_result['raw_response'] (183, 302): it has
\* parsed it, or holds it in its instance
ReadRaw(r) ==
    \/ \E i \in 1..Len(trace[r]) : trace[r][i] = "parse"
    \/ \E instance \in inst[r] : instance.gemini_raw_response # None

\* C23: analyze_waste_image never raises: whatever the input and whatever the
\* external API does, the handler that called it holds a result with a boolean
\* success; a successful result has the validated data and the raw reply, a
\* failed one has an error; and a handler reads the raw reply only from a
\* successful result.
C23_AnalysisNeverRaises ==
    \A r \in Requests :
        /\ PastAnalysis(r) => result[r] # None
        /\ \A res \in result[r] :
              /\ res.success \in BOOLEAN
              /\ res.success =>
                    /\ res.raw_response # None
                    /\ res.data.t = "dict" /\ WellFormed(res.data)
              /\ ~res.success => res.error # ""
              /\ ReadRaw(r) => res.success
        /\ ReadRaw(r) => result[r] # None
\* the external call raised, and the handler holds the failure that the service
\* made of it and has answered with it
C23_Witness ==
    /\ Called(1)
    /\ pc[1] = "done"
    /\ \E res \in result[1] :
          /\ ~res.success /\ res.error = "Gemini API error"
          /\ res.raw_response = None
          /\ response[1].error = res.error
    /\ \E i \in 1..Len(trace[1]) : trace[1][i] = "raise"
    /\ ~ReadRaw(1)

Codes(table) == {entry[1] : entry \in table}

\* C24: for every state code that the API serializer accepts,
\* get_state_name_from_code returns the display name that the model has for the
\* code, the table of the service and the INDIAN_STATES of the model having the
\* same codes with the same names; for a code in neither table it returns the
\* code itself.
C24_StateNamesAgree ==
    \A looked \in pout :
        looked.by = "state" =>
            /\ Codes(AnalyzerStates) = Codes(StateChoices)
            /\ Codes(StateChoices) = INDIAN_STATES
            /\ AnalyzerStates = StateChoices
            /\ looked.state_code \in SerializerStates =>
                  looked.state_name = get_state_display(looked.state_code)
            /\ looked.state_code \notin Codes(AnalyzerStates) \cup Codes(StateChoices) =>
                  looked.state_name = looked.state_code
\* the name of an accepted code has been looked up
C24_Witness ==
    \E looked \in pout :
        /\ looked.by = "state"
        /\ looked.state_code = "LA" /\ looked.state_code \in SerializerStates
        /\ looked.state_name = "Ladakh"

\* a step in which a page is rendered, GET /api/analyze/ is answered or the
\* story of a report is built
ReadOnlyStep ==
    \/ context' # context
    \/ info' # info
    \/ story' # story \/ pdfRow' # pdfRow
\* C25: GET on /api/analyze/, the home, history, detail and results pages and the
\* generation of the PDF of a row neither create, modify nor delete a row; the
\* confidence percentage they compute is on the in-memory objects only.
C25_ReadsLeaveRows ==
    [][ReadOnlyStep => /\ rows' = rows
                       /\ saves' = saves
                       /\ deleted' = deleted]_vars
\* the history page shows the percentage of a written row next to a row that has
\* none, and the rows are as their requests left them
C25_Witness ==
    \E shown \in context :
        /\ shown.view = "history" /\ shown.total = 2
        /\ shown.objects[1].confidence_percentage = 0
        /\ shown.objects[2].confidence_percentage = 90
        /\ rows[shown.objects[1].pk].confidence_score = None
        /\ rows[shown.objects[2].pk].confidence_score = Some(90)
        /\ saves = <<1, 0>>
        /\ story # <<>>
=============================================================================
